---- MODULE Spec2Model ----
(***************************************************************************)
(* text2ipa.py: English text to an IPA string.  Strings are sequences of   *)
(* characters; a character is a one-character string, and a non-ASCII      *)
(* character is written as its code point ("U+00E6" is the glyph ae).      *)
(***************************************************************************)
EXTENDS Integers, Sequences, FiniteSets, TLC

VARIABLES
  ipa,          \* module global ipa: "None" or "eng_to_ipa" (lines 26-29)
  pronouncing,  \* module global pronouncing: [module, dict] (lines 31-34)
  sym,          \* argument of _arpabet_symbol_to_ipa
  symOut,       \* its return value
  words,        \* argument of words_to_ipa_with_pronouncing
  text,         \* argument of text_to_ipa
  sep,          \* --sep / sep argument
  debug,        \* --debug / debug argument
  conv,         \* what ipa.convert did on the last call of text_to_ipa
  res,          \* outcome of the last function call: [exc, val, err, calls]
  argText,      \* args.text: [some, val]
  argFile,      \* args.file: [some, val]
  fileState,    \* what open(args.file) meets: "ok", "missing", "unreadable"
  fileLines,    \* the lines the file iterator yields
  lineNo,       \* next line of the file
  count,        \* local count of main
  stdout,       \* one entry per print to standard output
  stderr,       \* one entry per print to the error stream
  exitCode,     \* exit status of the process, -1 while running
  trace,        \* history: one record per call of text_to_ipa made by main
  pc            \* position of the run

vars == <<ipa, pronouncing, sym, symOut, words, text, sep, debug, conv, res,
          argText, argFile, fileState, fileLines, lineNo, count, stdout,
          stderr, exitCode, trace, pc>>

-----------------------------------------------------------------------------
(* Bounds of the model *)

MaxSymLen == 3
MaxWords == 2
MaxPieces == 3
MaxLines == 2

-----------------------------------------------------------------------------
(* Python str operations used by the program *)

WS == {" ", "\t", "\n"}
Digits == {"0", "1", "2", "3", "4", "5", "6", "7", "8", "9"}
UpperCase == <<"A","B","C","D","E","F","G","H","I","J","K","L","M",
               "N","O","P","Q","R","S","T","U","V","W","X","Y","Z">>
LowerCase == <<"a","b","c","d","e","f","g","h","i","j","k","l","m",
               "n","o","p","q","r","s","t","u","v","w","x","y","z">>

isdigit(c) == c \in Digits

char_lower(c) ==
  IF \E i \in 1..Len(UpperCase) : UpperCase[i] = c
  THEN LowerCase[CHOOSE i \in 1..Len(UpperCase) : UpperCase[i] = c]
  ELSE c

str_lower(s) == [i \in 1..Len(s) |-> char_lower(s[i])]

str_strip(s) ==
  LET keep == {i \in 1..Len(s) : s[i] \notin WS}
  IN IF keep = {} THEN <<>>
     ELSE SubSeq(s, CHOOSE i \in keep : \A j \in keep : i <= j,
                    CHOOSE i \in keep : \A j \in keep : i >= j)

RECURSIVE split_from(_, _, _, _)
split_from(s, i, cur, acc) ==
  IF i > Len(s) THEN (IF cur = <<>> THEN acc ELSE Append(acc, cur))
  ELSE IF s[i] \in WS
       THEN split_from(s, i + 1, <<>>, IF cur = <<>> THEN acc ELSE Append(acc, cur))
       ELSE split_from(s, i + 1, Append(cur, s[i]), acc)

str_split(s) == split_from(s, 1, <<>>, <<>>)

RECURSIVE str_join(_, _)
str_join(d, xs) ==
  IF xs = <<>> THEN <<>>
  ELSE IF Len(xs) = 1 THEN xs[1]
  ELSE xs[1] \o d \o str_join(d, Tail(xs))

str_replace(s, a, b) == [i \in 1..Len(s) |-> IF s[i] = a THEN b ELSE s[i]]

-----------------------------------------------------------------------------
(* The symbol table, lines 36-50: <<key, value>> pairs *)

ARPABET_TO_IPA == {
  <<<<"P">>, <<"p">>>>,
  <<<<"B">>, <<"b">>>>,
  <<<<"T">>, <<"t">>>>,
  <<<<"D">>, <<"d">>>>,
  <<<<"K">>, <<"k">>>>,
  <<<<"G">>, <<"U+0261">>>>,
  <<<<"C", "H">>, <<"t", "U+0361", "U+0283">>>>,
  <<<<"J", "H">>, <<"d", "U+0361", "U+0292">>>>,
  <<<<"F">>, <<"f">>>>,
  <<<<"V">>, <<"v">>>>,
  <<<<"T", "H">>, <<"U+03B8">>>>,
  <<<<"D", "H">>, <<"U+00F0">>>>,
  <<<<"S">>, <<"s">>>>,
  <<<<"Z">>, <<"z">>>>,
  <<<<"S", "H">>, <<"U+0283">>>>,
  <<<<"Z", "H">>, <<"U+0292">>>>,
  <<<<"H", "H">>, <<"h">>>>,
  <<<<"M">>, <<"m">>>>,
  <<<<"N">>, <<"n">>>>,
  <<<<"N", "G">>, <<"U+014B">>>>,
  <<<<"L">>, <<"l">>>>,
  <<<<"R">>, <<"U+0279">>>>,
  <<<<"Y">>, <<"j">>>>,
  <<<<"W">>, <<"w">>>>,
  <<<<"A", "A">>, <<"U+0251">>>>,
  <<<<"A", "E">>, <<"U+00E6">>>>,
  <<<<"A", "H">>, <<"U+028C">>>>,
  <<<<"A", "O">>, <<"U+0254">>>>,
  <<<<"A", "W">>, <<"a", "U+028A">>>>,
  <<<<"A", "Y">>, <<"a", "U+026A">>>>,
  <<<<"E", "H">>, <<"U+025B">>>>,
  <<<<"E", "R">>, <<"U+025D">>>>,
  <<<<"E", "Y">>, <<"e", "U+026A">>>>,
  <<<<"I", "H">>, <<"U+026A">>>>,
  <<<<"I", "Y">>, <<"i">>>>,
  <<<<"O", "W">>, <<"o", "U+028A">>>>,
  <<<<"O", "Y">>, <<"U+0254", "U+026A">>>>,
  <<<<"U", "H">>, <<"U+028A">>>>,
  <<<<"U", "W">>, <<"u">>>> }

TableKeys == {e[1] : e \in ARPABET_TO_IPA}

\* dict.get(key, default)
table_get(key, default) ==
  IF key \in TableKeys
  THEN (CHOOSE e \in ARPABET_TO_IPA : e[1] = key)[2]
  ELSE default

-----------------------------------------------------------------------------
(* _arpabet_symbol_to_ipa, lines 52-55 *)

\* mutant: the stress digits are not stripped before the lookup
arpabet_symbol_keeps_digits(s) == table_get(s, str_lower(s))

\* mutant: an unknown base form is passed through without lowercasing
arpabet_symbol_no_lower(s) ==
  LET base == SelectSeq(s, LAMBDA c : ~isdigit(c))
  IN table_get(base, base)

_arpabet_symbol_to_ipa(s) ==
  LET base == SelectSeq(s, LAMBDA c : ~isdigit(c))
  IN table_get(base, str_lower(base))

-----------------------------------------------------------------------------
(* arpabet_list_to_ipa, lines 57-58 *)

arpabet_list_to_ipa(arpa) ==
  str_join(<<" ">>, [i \in 1..Len(arpa) |-> _arpabet_symbol_to_ipa(arpa[i])])

-----------------------------------------------------------------------------
(* Outcomes of a call: the value returned or the exception raised, the     *)
(* entries it printed to the error stream and the collaborator calls made. *)

Returned(v, e, c) == [exc |-> FALSE, val |-> v, msg |-> "", err |-> e, calls |-> c]
Raised(m, e, c) == [exc |-> TRUE, val |-> <<>>, msg |-> m, err |-> e, calls |-> c]
NoCall == [exc |-> FALSE, val |-> <<>>, msg |-> "", err |-> <<>>, calls |-> <<>>]

RECURSIVE concat(_)
concat(xs) == IF xs = <<>> THEN <<>> ELSE xs[1] \o concat(Tail(xs))

\* pronouncing.phones_for_word(w): the candidates of w, none for an unknown word
phones_for_word(w) ==
  IF w \in DOMAIN pronouncing.dict THEN pronouncing.dict[w] ELSE <<>>

-----------------------------------------------------------------------------
(* words_to_ipa_with_pronouncing, lines 60-74 *)

\* mutant: the dictionary is queried with the word as written
word_loop_body_no_lower(w, dbg) ==
  LET phones == phones_for_word(w)
  IN [out |-> IF phones # <<>>
              THEN arpabet_list_to_ipa(str_split(phones[1]))
              ELSE w,
      err |-> IF dbg THEN << <<"[debug]", w, phones>> >> ELSE <<>>,
      calls |-> << <<"phones_for_word", w>> >>]

\* the body of the loop, lines 65-73, for one word
word_loop_body(w, dbg) ==
  LET phones == phones_for_word(str_lower(w))
  IN [out |-> IF phones # <<>>
              THEN arpabet_list_to_ipa(str_split(phones[1]))
              ELSE w,
      err |-> IF dbg THEN << <<"[debug]", w, phones>> >> ELSE <<>>,
      calls |-> << <<"phones_for_word", str_lower(w)>> >>]

words_to_ipa_with_pronouncing(ws, dbg) ==
  IF pronouncing.module = "None"
  THEN Raised("Module 'pronouncing' not available and eng_to_ipa failed.", <<>>, <<>>)
  ELSE LET steps == [i \in 1..Len(ws) |-> word_loop_body(ws[i], dbg)]
       IN Returned(str_join(<<" ">>, [i \in 1..Len(ws) |-> steps[i].out]),
                   concat([i \in 1..Len(ws) |-> steps[i].err]),
                   concat([i \in 1..Len(ws) |-> steps[i].calls]))

-----------------------------------------------------------------------------
(* text_to_ipa, lines 76-93.  cv is what ipa.convert does when called:     *)
(* [kind |-> "return", val] or [kind |-> "raise", msg].                    *)

\* mutant: the result of the primary converter is returned untrimmed
primary_path_no_strip(t, dbg, cv) ==
  IF cv.kind = "return" /\ cv.val # <<>> /\ str_strip(cv.val) # <<>>
  THEN [done |-> TRUE, out |-> Returned(cv.val, <<>>, << <<"convert", t>> >>)]
  ELSE [done |-> FALSE,
        out |-> Returned(<<>>,
                  IF cv.kind = "raise" /\ dbg
                  THEN << <<"[debug] eng_to_ipa failed", cv.msg>> >> ELSE <<>>,
                  << <<"convert", t>> >>)]

\* mutant: an exception of the primary converter is not caught
primary_path_no_except(t, dbg, cv) ==
  IF cv.kind = "return" /\ cv.val # <<>> /\ str_strip(cv.val) # <<>>
  THEN [done |-> TRUE, out |-> Returned(str_strip(cv.val), <<>>, << <<"convert", t>> >>)]
  ELSE IF cv.kind = "raise"
  THEN [done |-> TRUE, out |-> Raised(cv.msg, <<>>, << <<"convert", t>> >>)]
  ELSE [done |-> FALSE, out |-> Returned(<<>>, <<>>, << <<"convert", t>> >>)]

\* lines 82-88: the try block around ipa.convert; done when it returned
primary_path(t, dbg, cv) ==
  IF cv.kind = "return" /\ cv.val # <<>> /\ str_strip(cv.val) # <<>>
  THEN [done |-> TRUE, out |-> Returned(str_strip(cv.val), <<>>, << <<"convert", t>> >>)]
  ELSE [done |-> FALSE,
        out |-> Returned(<<>>,
                  IF cv.kind = "raise" /\ dbg
                  THEN << <<"[debug] eng_to_ipa failed", cv.msg>> >> ELSE <<>>,
                  << <<"convert", t>> >>)]

\* lines 90-93: the word-by-word fallback and the re-delimiting
fallback_path(t, sp, dbg) ==
  LET ws == str_split(str_replace(t, "\n", " "))
      ipa_fallback == words_to_ipa_with_pronouncing(ws, dbg)
  IN IF ipa_fallback.exc THEN ipa_fallback
     ELSE Returned(str_join(sp, str_split(ipa_fallback.val)),
                   ipa_fallback.err, ipa_fallback.calls)

\* mutant: no early return for a blank phrase
text_to_ipa_no_blank_check(t, sp, dbg, cv) ==
  LET s == str_strip(t)
      first == IF ipa # "None" THEN primary_path(s, dbg, cv)
               ELSE [done |-> FALSE, out |-> NoCall]
  IN IF first.done THEN first.out
     ELSE LET fb == fallback_path(s, sp, dbg)
          IN [fb EXCEPT !.err = first.out.err \o fb.err,
                        !.calls = first.out.calls \o fb.calls]

text_to_ipa(t, sp, dbg, cv) ==
  LET s == str_strip(t)
      first == IF ipa # "None" THEN primary_path(s, dbg, cv)
               ELSE [done |-> FALSE, out |-> NoCall]
  IN IF s = <<>> THEN NoCall
     ELSE IF first.done THEN first.out
     ELSE LET fb == fallback_path(s, sp, dbg)
          IN [fb EXCEPT !.err = first.out.err \o fb.err,
                        !.calls = first.out.calls \o fb.calls]

-----------------------------------------------------------------------------
(* Inputs *)

cat == <<"c", "a", "t">>
Cat == <<"C", "a", "t">>
the == <<"t", "h", "e">>
The == <<"T", "h", "e">>
zq == <<"z", "q">>
Zq == <<"Z", "q">>

\* cat has two candidates; zq is unknown
DictA ==
  [w \in {cat, the} |->
     IF w = cat
     THEN << <<"K", " ", "A", "E", "1", " ", "T">>,
             <<"K", " ", "A", "A", "2", " ", "T">> >>
     ELSE << <<"D", "H", " ", "A", "H", "0">>,
             <<"D", "H", " ", "I", "Y", "0">> >>]

\* cat is unknown; zq has a symbol that is not in the table
DictB ==
  [w \in {the, zq} |->
     IF w = the
     THEN << <<"D", "H", " ", "I", "Y", "1">> >>
     ELSE << <<"Z", " ", "X", "Q", "2">> >>]

NoDict == [w \in {} |-> <<>>]

Pronouncings ==
  { [module |-> "None", dict |-> NoDict],
    [module |-> "pronouncing", dict |-> DictA],
    [module |-> "pronouncing", dict |-> DictB] }

IpaModules == {"None", "eng_to_ipa"}

Seps == { <<" ">>, <<"-">>, <<",", " ">> }

NotCalled == [kind |-> "not_called", val |-> <<>>, msg |-> ""]

PrimaryOutcomes ==
  { [kind |-> "raise", val |-> <<>>, msg |-> "boom"],
    [kind |-> "return", val |-> <<>>, msg |-> ""],
    [kind |-> "return", val |-> <<" ", "\n">>, msg |-> ""],
    [kind |-> "return", val |-> <<" ", "k", "U+00E6", "t", "\n">>, msg |-> ""],
    [kind |-> "return", val |-> <<"k", " ", "U+00E6", "t">>, msg |-> ""] }

\* what ipa.convert would do if called: nothing to call when ipa is None
ConvertOutcomes ==
  IF ipa = "None" THEN {NotCalled} ELSE PrimaryOutcomes

RECURSIVE SeqsUpTo(_, _)
SeqsUpTo(S, n) ==
  IF n = 0 THEN {<<>>}
  ELSE LET shorter == SeqsUpTo(S, n - 1)
       IN shorter \cup {Append(q, x) : q \in shorter, x \in S}

SymChars == {"A", "E", "K", "X", "q", "0", "1", "7"}
StressDigits == {"0", "1", "2"}
\* a symbol starts with a letter
SymInputs ==
  {q \in SeqsUpTo(SymChars, MaxSymLen) : q # <<>> /\ q[1] \notin Digits}
    \cup TableKeys
    \cup {Append(k, d) : k \in TableKeys, d \in StressDigits}

WordSet == {cat, Cat, The, Zq}
WordLists == SeqsUpTo(WordSet, MaxWords)

Pieces == { <<" ">>, <<"\n">>, cat, The, Zq }
Phrases == {concat(q) : q \in SeqsUpTo(Pieces, MaxPieces)}

-----------------------------------------------------------------------------
(* The translation of one symbol: specification SymSpec *)

IdleEnv ==
  /\ ipa = "None"
  /\ pronouncing = [module |-> "None", dict |-> NoDict]
  /\ sep = <<" ">>
  /\ debug = FALSE

IdleCalls ==
  /\ sym = <<>> /\ symOut = <<>>
  /\ words = <<>> /\ text = <<>>
  /\ conv = NotCalled /\ res = NoCall

IdleMain ==
  /\ argText = [some |-> FALSE, val |-> <<>>]
  /\ argFile = [some |-> FALSE, val |-> <<>>]
  /\ fileState = "missing" /\ fileLines = <<>>
  /\ lineNo = 1 /\ count = 0
  /\ stdout = <<>> /\ stderr = <<>>
  /\ exitCode = -1 /\ trace = <<>>

mainVars == <<argText, argFile, fileState, fileLines, lineNo, count, stdout,
              stderr, exitCode, trace>>
envVars == <<ipa, pronouncing, sep, debug>>

InitSym ==
  /\ IdleEnv /\ IdleMain
  /\ sym \in SymInputs
  /\ symOut = <<>> /\ words = <<>> /\ text = <<>>
  /\ conv = NotCalled /\ res = NoCall
  /\ pc = "call"

TranslateSymbol ==
  /\ pc = "call"
  /\ symOut' = _arpabet_symbol_to_ipa(sym)
  /\ pc' = "return"
  /\ UNCHANGED <<envVars, mainVars, sym, words, text, conv, res>>

NextSym == TranslateSymbol

SymSpec == InitSym /\ [][NextSym]_vars

-----------------------------------------------------------------------------
(* The word fallback on a list of words: specification WordsSpec *)

InitWords ==
  /\ IdleMain
  /\ ipa = "None" /\ sep = <<" ">>
  /\ pronouncing \in Pronouncings
  /\ debug \in BOOLEAN
  /\ words \in WordLists
  /\ sym = <<>> /\ symOut = <<>> /\ text = <<>>
  /\ conv = NotCalled /\ res = NoCall
  /\ pc = "call"

CallWordsToIpa ==
  /\ pc = "call"
  /\ res' = words_to_ipa_with_pronouncing(words, debug)
  /\ pc' = "return"
  /\ UNCHANGED <<envVars, mainVars, sym, symOut, words, text, conv>>

NextWords == CallWordsToIpa

WordsSpec == InitWords /\ [][NextWords]_vars

-----------------------------------------------------------------------------
(* The conversion of one phrase: specification TextSpec *)

InitText ==
  /\ IdleMain
  /\ ipa \in IpaModules
  /\ pronouncing \in Pronouncings
  /\ sep \in Seps
  /\ debug \in BOOLEAN
  /\ text \in Phrases
  /\ sym = <<>> /\ symOut = <<>> /\ words = <<>>
  /\ conv = NotCalled /\ res = NoCall
  /\ pc = "call"

CallTextToIpa ==
  /\ pc = "call"
  /\ \E cv \in ConvertOutcomes :
       /\ conv' = cv
       /\ res' = text_to_ipa(text, sep, debug, cv)
  /\ pc' = "return"
  /\ UNCHANGED <<envVars, mainVars, sym, symOut, words, text>>

NextText == CallTextToIpa

TextSpec == InitText /\ [][NextText]_vars

-----------------------------------------------------------------------------
(* main, lines 95-128: specification Spec *)

\* Python truth of an optional string: None and "" are false
truthy(a) == a.some /\ a.val # <<>>

ArgTexts ==
  { [some |-> FALSE, val |-> <<>>],
    [some |-> TRUE, val |-> <<>>],
    [some |-> TRUE, val |-> <<" ">>],
    [some |-> TRUE, val |-> cat],
    [some |-> TRUE, val |-> The \o <<" ">> \o Zq] }

ArgFiles ==
  { [some |-> FALSE, val |-> <<>>],
    [some |-> TRUE, val |-> <<>>],
    [some |-> TRUE, val |-> <<"f">>] }

Lines ==
  { <<"\n">>, <<" ", "\n">>, cat \o <<"\n">>,
    <<" ">> \o The \o <<" ">> \o Zq \o <<"\n">> }

FileContents == SeqsUpTo(Lines, MaxLines)

Init ==
  /\ IdleCalls
  /\ ipa \in IpaModules
  /\ pronouncing \in Pronouncings
  /\ sep \in Seps
  /\ debug \in BOOLEAN
  /\ argText \in ArgTexts
  /\ argFile \in ArgFiles
  /\ fileState \in (IF ~truthy(argText) /\ truthy(argFile)
                    THEN {"ok", "missing", "unreadable"} ELSE {"missing"})
  /\ fileLines \in (IF fileState = "ok" THEN FileContents ELSE {<<>>})
  /\ lineNo = 1 /\ count = 0
  /\ stdout = <<>> /\ stderr = <<>>
  /\ exitCode = -1 /\ trace = <<>>
  /\ pc = "main"

\* lines 103-105
Usage ==
  /\ pc = "main"
  /\ ~truthy(argText) /\ ~truthy(argFile)
  /\ stderr' = Append(stderr, <<"help">>)
  /\ exitCode' = 2
  /\ pc' = "exit"
  /\ UNCHANGED <<envVars, sym, symOut, words, text, conv, res, argText,
                 argFile, fileState, fileLines, lineNo, count, stdout, trace>>

\* mutant: the handler reports the exception and the run goes on
ConvertAndPrint_no_exit(t, cv, next) ==
  LET r == text_to_ipa(t, sep, debug, cv)
  IN /\ trace' = Append(trace, [text |-> t, conv |-> cv, res |-> r])
     /\ pc' = next
     /\ exitCode' = IF next = "exit" THEN 0 ELSE exitCode
     /\ IF r.exc
        THEN /\ stderr' = (stderr \o r.err) \o << <<"[error]", r.msg>> >>
             /\ UNCHANGED stdout
        ELSE /\ stdout' = Append(stdout, r.val)
             /\ stderr' = stderr \o r.err

\* print(text_to_ipa(t, ...)) inside the try of main: the value is printed,
\* or the exception is reported by lines 126-128 and the run exits 1
ConvertAndPrint(t, cv, next) ==
  LET r == text_to_ipa(t, sep, debug, cv)
  IN /\ trace' = Append(trace, [text |-> t, conv |-> cv, res |-> r])
     /\ IF r.exc
        THEN /\ stderr' = (stderr \o r.err) \o << <<"[error]", r.msg>> >>
             /\ exitCode' = 1
             /\ pc' = "exit"
             /\ UNCHANGED stdout
        ELSE /\ stdout' = Append(stdout, r.val)
             /\ stderr' = stderr \o r.err
             /\ pc' = next
             /\ exitCode' = IF next = "exit" THEN 0 ELSE exitCode

\* lines 108-110
TextMode ==
  /\ pc = "main"
  /\ truthy(argText)
  /\ \E cv \in ConvertOutcomes :
       ConvertAndPrint(argText.val, cv, "exit")
  /\ UNCHANGED <<envVars, sym, symOut, words, text, conv, res, argText,
                 argFile, fileState, fileLines, lineNo, count>>

\* lines 113-114 and 123-128
OpenFile ==
  /\ pc = "main"
  /\ ~truthy(argText) /\ truthy(argFile)
  /\ count' = 0
  /\ IF fileState = "missing"
     THEN /\ stderr' = Append(stderr, <<"[error] File not found", argFile.val>>)
          /\ exitCode' = 1
          /\ pc' = "exit"
     ELSE IF fileState = "unreadable"
     THEN /\ stderr' = Append(stderr, <<"[error]", "OSError">>)
          /\ exitCode' = 1
          /\ pc' = "exit"
     ELSE /\ pc' = "loop"
          /\ UNCHANGED <<stderr, exitCode>>
  /\ UNCHANGED <<envVars, sym, symOut, words, text, conv, res, argText,
                 argFile, fileState, fileLines, lineNo, stdout, trace>>

\* mutant: blank lines are converted and printed like the others
LoopLine_no_skip ==
  /\ pc = "loop"
  /\ lineNo <= Len(fileLines)
  /\ lineNo' = lineNo + 1
  /\ LET phrase == str_strip(fileLines[lineNo])
     IN /\ \E cv \in ConvertOutcomes : ConvertAndPrint(phrase, cv, "loop")
        /\ count' = IF pc' = "loop" THEN count + 1 ELSE count
  /\ UNCHANGED <<envVars, sym, symOut, words, text, conv, res, argText,
                 argFile, fileState, fileLines>>

\* lines 115-120: one iteration of the loop over the lines
LoopLine ==
  /\ pc = "loop"
  /\ lineNo <= Len(fileLines)
  /\ lineNo' = lineNo + 1
  /\ LET phrase == str_strip(fileLines[lineNo])
     IN IF phrase = <<>>
        THEN UNCHANGED <<count, stdout, stderr, exitCode, trace, pc>>
        ELSE /\ \E cv \in ConvertOutcomes : ConvertAndPrint(phrase, cv, "loop")
             /\ count' = IF pc' = "loop" THEN count + 1 ELSE count
  /\ UNCHANGED <<envVars, sym, symOut, words, text, conv, res, argText,
                 argFile, fileState, fileLines>>

\* lines 121-122, then main returns
EndOfFile ==
  /\ pc = "loop"
  /\ lineNo > Len(fileLines)
  /\ stderr' = IF count = 0
               THEN Append(stderr, <<"[warn] No non-empty lines found.">>)
               ELSE stderr
  /\ exitCode' = 0
  /\ pc' = "exit"
  /\ UNCHANGED <<envVars, sym, symOut, words, text, conv, res, argText,
                 argFile, fileState, fileLines, lineNo, count, stdout, trace>>

Next ==
  \/ Usage
  \/ TextMode
  \/ OpenFile
  \/ LoopLine
  \/ EndOfFile

Spec == Init /\ [][Next]_vars

-----------------------------------------------------------------------------
(* What the claims speak of *)

NonBlank(s) == \E i \in 1..Len(s) : s[i] \notin WS
Blank(s) == \A i \in 1..Len(s) : s[i] \in WS

\* r is s without its leading and trailing whitespace
IsTrimOf(r, s) ==
  /\ r = <<>> \/ (r[1] \notin WS /\ r[Len(r)] \notin WS)
  /\ \E a \in 0..Len(s) :
       /\ a + Len(r) <= Len(s)
       /\ SubSeq(s, a + 1, a + Len(r)) = r
       /\ \A i \in 1..a : s[i] \in WS
       /\ \A i \in (a + Len(r) + 1)..Len(s) : s[i] \in WS

\* the translated symbols of the first candidate of w, or w itself
WordPieces(w) ==
  LET cands == phones_for_word(str_lower(w))
  IN IF cands = <<>> THEN <<w>>
     ELSE LET syms == str_split(cands[1])
          IN [i \in 1..Len(syms) |-> _arpabet_symbol_to_ipa(syms[i])]

\* one word's rendering: its pieces with single spaces between them
WordRendering(w) == str_join(<<" ">>, WordPieces(w))

\* the phrase's words, each rendered, all pieces delimited by sp
FallbackRendering(t, sp) ==
  LET ws == str_split(t)
  IN str_join(sp, concat([i \in 1..Len(ws) |-> WordPieces(ws[i])]))

PrimarySucceeds(cv) == cv.kind = "return" /\ NonBlank(cv.val)
PrimaryFails(cv) == cv.kind = "raise" \/ (cv.kind = "return" /\ Blank(cv.val))

QueriesDictionary(r) ==
  \E i \in 1..Len(r.calls) : r.calls[i][1] = "phones_for_word"

LogsPrimaryFailure(r) ==
  \E i \in 1..Len(r.err) : r.err[i][1] = "[debug] eng_to_ipa failed"

\* C1: for a non-blank phrase, when the primary converter is available and
\* returns a non-blank string, text_to_ipa returns that string trimmed, whatever
\* the separator and the dictionary, and the dictionary is not queried.
C1_PrimaryWins ==
  (pc = "return" /\ NonBlank(text) /\ ipa # "None" /\ PrimarySucceeds(conv))
    => /\ ~res.exc
       /\ IsTrimOf(res.val, conv.val)
       /\ ~QueriesDictionary(res)

C1_Witness ==
  /\ pc = "return" /\ NonBlank(text) /\ ipa # "None"
  /\ conv.val = <<" ", "k", "U+00E6", "t", "\n">>
  /\ sep = <<"-">>
  /\ pronouncing.module = "None"
  /\ res.val = <<"k", "U+00E6", "t">>

\* C2: for a non-blank phrase, when the primary converter is available but
\* raises or returns a blank result, text_to_ipa does not raise: with the
\* dictionary available it returns the word-by-word fallback rendering, and the
\* failure is written to the error stream only when debug is set.
C2_PrimaryFailureAbsorbed ==
  (pc = "return" /\ NonBlank(text) /\ ipa # "None" /\ PrimaryFails(conv)
     /\ pronouncing.module # "None")
    => /\ ~res.exc
       /\ res.val = FallbackRendering(text, sep)
       /\ LogsPrimaryFailure(res) => debug

C2_Witness ==
  /\ pc = "return" /\ ipa # "None" /\ conv.kind = "raise"
  /\ pronouncing.dict = DictA
  /\ text = <<" ">> \o cat \o <<"\n">>
  /\ debug /\ LogsPrimaryFailure(res)
  /\ res.val = <<"k", " ", "U+00E6", " ", "t">>

\* C3: on the fallback path the separator stands only between the renderings
\* of consecutive words, and inside one word's rendering the phones stay
\* separated by single spaces.
C3_SeparatorOnlyBetweenWords ==
  (pc = "return" /\ NonBlank(text) /\ pronouncing.module # "None"
     /\ (ipa = "None" \/ PrimaryFails(conv)))
    => LET ws == str_split(text)
       IN res.val = str_join(sep, [i \in 1..Len(ws) |-> WordRendering(ws[i])])

\* C4: for an empty or whitespace-only phrase text_to_ipa returns the empty
\* string and raises nothing, whatever the separator, the debug flag and the
\* availability of the two collaborators, and it calls neither of them.
C4_BlankPhrase ==
  (pc = "return" /\ Blank(text))
    => /\ ~res.exc
       /\ res.val = <<>>
       /\ res.calls = <<>>
       /\ res.err = <<>>

C4_Witness ==
  /\ pc = "return"
  /\ text = <<" ", "\n">>
  /\ ipa # "None" /\ conv.kind = "raise"
  /\ pronouncing.module = "None"
  /\ res.val = <<>> /\ ~res.exc

\* C8: with the dictionary available, words_to_ipa_with_pronouncing returns
\* the single-space join, in input order, of one rendering per word; the
\* dictionary is queried with the word lowercased; a known word renders as the
\* translated symbols of its first candidate joined by single spaces, an unknown
\* word as itself, case kept.
C8_WordFallback ==
  (pc = "return" /\ pronouncing.module # "None")
    => /\ ~res.exc
       /\ res.val = str_join(<<" ">>, [i \in 1..Len(words) |-> WordRendering(words[i])])
       /\ res.calls = [i \in 1..Len(words) |-> <<"phones_for_word", str_lower(words[i])>>]
       /\ (words = <<cat>> /\ pronouncing.dict = DictA)
            => res.val = <<"k", " ", "U+00E6", " ", "t">>
       /\ (words = <<Zq>> /\ pronouncing.dict = DictA) => res.val = Zq

C8_Witness ==
  /\ pc = "return"
  /\ pronouncing.dict = DictA
  /\ words = <<Cat, Zq>>
  /\ res.val = <<"k", " ", "U+00E6", " ", "t", " ", "Z", "q">>

StripDigits(s) == SelectSeq(s, LAMBDA c : c \notin Digits)

\* C9 as stated: a symbol that is not in the table, a digit it carries
\* notwithstanding, comes back lowercased and otherwise unchanged.  Read in the
\* claim's favour: only symbols whose base form is not in the table either.
C9_UnknownSymbolUnchanged ==
  (pc = "return" /\ sym \notin TableKeys /\ StripDigits(sym) \notin TableKeys)
    => symOut = str_lower(sym)

\* C9 as amended: a symbol whose base form (its digits removed) is not in the
\* table comes back as that base form lowercased.
C9_UnknownBaseLowercased ==
  (pc = "return" /\ StripDigits(sym) \notin TableKeys)
    => /\ symOut = str_lower(StripDigits(sym))
       /\ \A i \in 1..Len(symOut) : symOut[i] \notin Digits
       /\ StripDigits(sym) = sym => symOut = str_lower(sym)

C9_Witness ==
  /\ pc = "return"
  /\ sym = <<"X", "X", "1">>
  /\ symOut = <<"x", "x">>

\* C10: a key of the table followed by a stress digit 0, 1 or 2 translates to
\* the same IPA string as the key alone, and no key of the table has a digit.
C10_StressDigitIgnored ==
  /\ \A k \in TableKeys : \A i \in 1..Len(k) : k[i] \notin Digits
  /\ \A k \in TableKeys : \A d \in StressDigits :
       (pc = "return" /\ sym = Append(k, d))
         => /\ symOut = _arpabet_symbol_to_ipa(k)
            /\ <<k, symOut>> \in ARPABET_TO_IPA

C10_Witness ==
  /\ pc = "return"
  /\ sym = <<"A", "E", "1">>
  /\ symOut = <<"U+00E6">>

-----------------------------------------------------------------------------
(* The run of main *)

FileMode == ~truthy(argText) /\ truthy(argFile)

\* the call recorded in e went to the fallback with no dictionary module
FallbackWithoutDictionary(e) ==
  /\ NonBlank(e.text)
  /\ ipa = "None" \/ PrimaryFails(e.conv)
  /\ pronouncing.module = "None"

ErrorEntries == SelectSeq(stderr, LAMBDA e : e[1] = "[error]")

\* C5: the first phrase that reaches the fallback while the dictionary module
\* is unavailable ends the run: one prefixed error message on the error stream,
\* exit code 1, that phrase and every later one neither converted nor printed,
\* and the exit code is never 0.
C5_MissingDictionaryIsFatal ==
  \A i \in 1..Len(trace) :
    FallbackWithoutDictionary(trace[i])
      => /\ i = Len(trace)
         /\ pc = "exit"
         /\ exitCode = 1
         /\ Len(stdout) = i - 1
         /\ Len(ErrorEntries) = 1
         /\ stderr[Len(stderr)][1] = "[error]"

C5_Witness ==
  /\ FileMode /\ pc = "exit"
  /\ Len(fileLines) = 2 /\ Len(trace) = 2
  /\ PrimarySucceeds(trace[1].conv)
  /\ FallbackWithoutDictionary(trace[2])
  /\ Len(stdout) = 1 /\ exitCode = 1

Fatal ==
  \/ fileState # "ok"
  \/ \E i \in 1..Len(trace) : FallbackWithoutDictionary(trace[i])

\* the phrases of the non-blank lines among the first n lines of the file
NonBlankLines(n) == SelectSeq(SubSeq(fileLines, 1, n), NonBlank)

\* C6: in file mode without a fatal error, standard output holds one line per
\* non-blank line read so far, in file order, the k-th being the conversion of
\* the k-th non-blank line; blank lines print nothing; the run exits 0, and a
\* file without a non-blank line leaves stdout empty and a warning on stderr.
C6_FileModeOutput ==
  (FileMode /\ ~Fatal /\ pc \in {"loop", "exit"})
    => LET nb == NonBlankLines(lineNo - 1)
       IN /\ Len(stdout) = Len(nb)
          /\ Len(trace) = Len(nb)
          /\ \A k \in 1..Len(nb) :
               /\ IsTrimOf(trace[k].text, nb[k])
               /\ ~trace[k].res.exc
               /\ stdout[k] = trace[k].res.val
               /\ stdout[k] = IF PrimarySucceeds(trace[k].conv)
                              THEN str_strip(trace[k].conv.val)
                              ELSE FallbackRendering(nb[k], sep)
          /\ pc = "exit"
               => /\ lineNo = Len(fileLines) + 1
                  /\ exitCode = 0
                  /\ nb = <<>> =>
                       /\ stdout = <<>>
                       /\ \E j \in 1..Len(stderr) :
                            stderr[j] = <<"[warn] No non-empty lines found.">>

C6_Witness ==
  /\ FileMode /\ ~Fatal /\ pc = "exit"
  /\ Len(fileLines) = 2
  /\ Blank(fileLines[1]) /\ fileLines[2] = cat \o <<"\n">>
  /\ pronouncing.dict = DictA /\ ipa = "None"
  /\ stdout = << <<"k", " ", "U+00E6", " ", "t">> >>
  /\ exitCode = 0

\* C7: the run exits 2 only when neither --text nor --file is supplied; when
\* --text is supplied, whatever its value and whether or not --file comes with
\* it, that phrase is converted, one line is printed and the run exits 0,
\* unless the conversion raises.
C7_TextAlwaysConverted ==
  /\ exitCode = 2 => (~argText.some /\ ~argFile.some)
  /\ (pc = "exit" /\ argText.some
        /\ ~(\E i \in 1..Len(trace) : FallbackWithoutDictionary(trace[i])))
       => /\ exitCode = 0
          /\ Len(stdout) = 1
          /\ Len(trace) = 1
          /\ trace[1].text = argText.val

====
